---- MODULE Spec2Model ----
(***************************************************************************)
(* A model of the GitHub webhook receiver: payload normalization           *)
(* (event_parser.py), the Event model (event.py), the event store          *)
(* (event_service.py, database.py) and the two HTTP handlers (webhook.py,  *)
(* events.py).                                                             *)
(*                                                                         *)
(* Strings are sequences of tokens: <<"refs/heads/", "main">> stands for   *)
(* "refs/heads/main".  Concatenation is \o, and str.replace of a token is  *)
(* the removal of that token.  Times are integers (seconds).               *)
(***************************************************************************)
EXTENDS Integers, Sequences, FiniteSets, TLC

VARIABLES
    store,      \* the github_events collection, in insertion order
    now,        \* the wall clock (UTC seconds)
    reqs,       \* the POST /webhook requests, each with its position
    getResp,    \* the response of the last GET /events
    nIn,        \* harnesses: the raw payload and its kind, or the query
    nOut,       \* normalization harness: what the parser returned
    conn        \* database.py: _client, _db, _collection and the last call

vars == <<store, now, reqs, getResp, nIn, nOut, conn>>

----------------------------------------------------------------------------
(* Bounds of the model                                                     *)

NumReq == 2          \* webhook requests in a run
MaxTime == 30        \* the clock stops here
MaxDocs == 3         \* records in a store that is read
MaxCalls == 4        \* calls of the connection functions in a run

(* Program constants                                                       *)

EVENT_TIME_WINDOW == 15
DEFAULT_LIMIT == 50
MIN_LIMIT == 1
MAX_LIMIT == 100

StartTime == EVENT_TIME_WINDOW + 5    \* the clock's first value
TickStep == EVENT_TIME_WINDOW - 5     \* the clock's step

----------------------------------------------------------------------------
(* JSON values as Python sees them                                         *)

Absent == [k |-> "absent", s |-> <<>>]         \* the key is not in the dict
Null == [k |-> "null", s |-> <<>>]             \* None
Str(toks) == [k |-> "str", s |-> toks]
Num(digits) == [k |-> "num", s |-> <<digits>>]
Bool(b) == [k |-> "bool", s |-> IF b THEN <<"True">> ELSE <<"False">>]

\* Python truthiness: `if v`, `not v`
Truthy(v) ==
    \/ v.k = "str" /\ v.s # <<>>
    \/ v.k = "num" /\ v.s # <<"0">>
    \/ v.k = "bool" /\ v.s = <<"True">>

\* f"{v}"
Fmt(v) == IF v.k = "null" THEN <<"None">> ELSE v.s

\* str.strip() == ""
IsBlank(toks) == \A i \in DOMAIN toks : toks[i] = " "

\* str.replace(pat, "")
Replace(toks, pat) == SelectSeq(toks, LAMBDA x : x # pat)

\* d.get(key, default), d being the result of an earlier .get(key, {}):
\* objKind "absent" is the {} default, "obj" a dict.
Get(objKind, field, default) ==
    IF objKind = "obj" /\ field.k # "absent" THEN field ELSE default

\* .get on something that is not a dict raises AttributeError
GetRaises(objKind) == objKind \notin {"absent", "obj"}

(* Timestamp strings: form "iso" is an ISO-8601 date-time of local time t  *)
(* with tz "naive" (no offset), "Z" or "offset" (a numeric offset off).    *)
TsAbsent == [k |-> "absent", form |-> "", t |-> 0, tz |-> "naive", off |-> 0]
TsNull == [k |-> "null", form |-> "", t |-> 0, tz |-> "naive", off |-> 0]
TsNum == [k |-> "num", form |-> "", t |-> 0, tz |-> "naive", off |-> 0]
TsEmpty == [k |-> "str", form |-> "empty", t |-> 0, tz |-> "naive", off |-> 0]
TsGarbage == [k |-> "str", form |-> "garbage", t |-> 0, tz |-> "naive", off |-> 0]
TsIso(t, tz, off) == [k |-> "str", form |-> "iso", t |-> t, tz |-> tz, off |-> off]

TsTruthy(ts) == (ts.k = "str" /\ ts.form # "empty") \/ ts.k = "num"

GetTs(objKind, field, default) ==
    IF objKind = "obj" /\ field.k # "absent" THEN field ELSE default

(* A raw payload is a record of the keys it carries: shape says what       *)
(* get_json returned ("obj" a non-empty dict, "list" a non-empty value     *)
(* that is no dict, "empty" a falsy value, "null" None, "missing" no       *)
(* parseable body).  A nested object appears as its kind ("obj", "null",   *)
(* "str" for a value of another type) and its keys beside it: id and       *)
(* timestamp of head_commit, name of pusher, login of user, head_ref and   *)
(* base_ref for head.ref and base.ref, pr_id for pull_request.id.          *)

KindFields == {"head_commit", "pusher", "pull_request", "user", "head", "base"}

Field(payload, key) == IF key \in DOMAIN payload THEN payload[key] ELSE Absent
Kind(payload, key) == IF key \in DOMAIN payload THEN payload[key] ELSE "absent"
Stamp(payload, key) == IF key \in DOMAIN payload THEN payload[key] ELSE TsAbsent

\* the record without the keys whose value says the key is absent
Sparse(payload) ==
    [key \in {g \in DOMAIN payload :
                IF g = "shape" THEN TRUE
                ELSE IF g \in KindFields THEN payload[g] # "absent"
                ELSE payload[g].k # "absent"} |-> payload[key]]

----------------------------------------------------------------------------
(* models/event.py                                                         *)

ActionType == {"PUSH", "PULL_REQUEST", "MERGE"}

\* Optional[Event]: None is the record with ok = FALSE and nothing else
None == [ok |-> FALSE]

\* an exception that leaves a parser instead of a return value
Raised == [ok |-> FALSE, raised |-> TRUE]
Propagated(event) == "raised" \in DOMAIN event

Event(request_id, author, action, from_branch, to_branch, timestamp) ==
    [ok |-> TRUE, request_id |-> request_id, author |-> author,
     action |-> action, from_branch |-> from_branch, to_branch |-> to_branch,
     timestamp |-> timestamp]

\* `not self.f or not self.f.strip()` raising ValueError, or .strip() on a
\* value that is not a str raising AttributeError
FieldRejected(v) == ~Truthy(v) \/ v.k # "str" \/ IsBlank(v.s)

\* Event.validate(): TRUE when it returns True, FALSE when it raises
Validate(e) ==
    /\ ~FieldRejected(e.request_id)
    /\ ~FieldRejected(e.author)
    /\ e.action \in ActionType
    /\ ~FieldRejected(e.from_branch)
    /\ ~FieldRejected(e.to_branch)

\* Event.to_dict() as the store keeps it: BSON holds the UTC instant, and a
\* read gives it back without tzinfo
ToDict(e) ==
    [request_id |-> e.request_id, author |-> e.author, action |-> e.action,
     from_branch |-> e.from_branch, to_branch |-> e.to_branch,
     timestamp |-> [t |-> e.timestamp.t, aware |-> FALSE]]

\* datetime.isoformat() + "Z": an aware datetime prints its offset too
IsoFormatZ(ts) == [t |-> ts.t, suffix |-> IF ts.aware THEN "+00:00Z" ELSE "Z"]

\* Event.from_db_document(doc).to_api_response()
ToApiResponse(doc) ==
    [request_id |-> doc.request_id, author |-> doc.author,
     action |-> doc.action, from_branch |-> doc.from_branch,
     to_branch |-> doc.to_branch, timestamp |-> IsoFormatZ(doc.timestamp)]

----------------------------------------------------------------------------
(* services/event_parser.py                                                *)

\* _parse_timestamp: raised is an exception other than ValueError leaving
\* the function
ParseTimestamp(ts, clock) ==
    IF ~TsTruthy(ts)
    THEN [raised |-> FALSE, t |-> clock, aware |-> TRUE]       \* datetime.now(timezone.utc)
    ELSE IF ts.k # "str"
    THEN [raised |-> TRUE, t |-> 0, aware |-> FALSE]           \* .endswith on a non-str
    ELSE IF ts.form # "iso"
    THEN [raised |-> FALSE, t |-> clock, aware |-> FALSE]      \* ValueError: datetime.utcnow()
    ELSE IF ts.tz = "naive"
    THEN [raised |-> FALSE, t |-> ts.t, aware |-> FALSE]       \* replace(tzinfo=utc)
    ELSE IF ts.tz = "Z"
    THEN [raised |-> FALSE, t |-> ts.t, aware |-> FALSE]       \* "Z" read as +00:00
    ELSE [raised |-> FALSE, t |-> ts.t - ts.off, aware |-> FALSE]  \* astimezone(utc)

\* a payload with no key that the parsers read
EmptyObj == [shape |-> "obj"]

PushBranchName(payload) ==
    LET ref == IF Field(payload, "ref").k = "absent" THEN Str(<<>>) ELSE Field(payload, "ref")
    IN  IF Truthy(ref) THEN Str(Replace(ref.s, "refs/heads/")) ELSE Str(<<"unknown">>)

\* the commit hash taken from 'after' alone
PushCommitHashAfterOnly(payload) ==
    IF Field(payload, "after").k = "absent" THEN Str(<<>>) ELSE Field(payload, "after")

PushCommitHash(payload) ==
    LET fromHead == Get(Kind(payload, "head_commit"), Field(payload, "id"), Str(<<>>))
    IN  IF Truthy(fromHead)
        THEN fromHead
        ELSE IF Field(payload, "after").k = "absent" THEN Str(<<>>) ELSE Field(payload, "after")

\* an exception inside the try block of parse_push_event
PushRaises(payload, clock) ==
    \/ payload.shape # "obj"
    \/ (Truthy(Field(payload, "ref")) /\ Field(payload, "ref").k # "str")
    \/ GetRaises(Kind(payload, "head_commit"))
    \/ /\ Truthy(PushCommitHash(payload))
       /\ \/ GetRaises(Kind(payload, "pusher"))
          \/ ParseTimestamp(GetTs(Kind(payload, "head_commit"), Stamp(payload, "timestamp"), TsEmpty), clock).raised

\* parse_push_event without its try/except: what raises inside goes out
ParsePushEventNoExcept(payload, clock) ==
    IF PushRaises(payload, clock) THEN Raised
    ELSE IF ~Truthy(PushCommitHash(payload)) THEN None
    ELSE LET ts == ParseTimestamp(GetTs(Kind(payload, "head_commit"), Stamp(payload, "timestamp"), TsEmpty), clock)
             event == Event(PushCommitHash(payload),
                            Get(Kind(payload, "pusher"), Field(payload, "name"), Str(<<"unknown">>)),
                            "PUSH",
                            PushBranchName(payload),
                            PushBranchName(payload),
                            [t |-> ts.t, aware |-> ts.aware])
         IN  IF Validate(event) THEN event ELSE Raised

ParsePushEvent(payload, clock) ==
    IF PushRaises(payload, clock) THEN None
    ELSE IF ~Truthy(PushCommitHash(payload)) THEN None
    ELSE LET ts == ParseTimestamp(GetTs(Kind(payload, "head_commit"), Stamp(payload, "timestamp"), TsEmpty), clock)
             event == Event(PushCommitHash(payload),
                            Get(Kind(payload, "pusher"), Field(payload, "name"), Str(<<"unknown">>)),
                            "PUSH",
                            PushBranchName(payload),
                            PushBranchName(payload),
                            [t |-> ts.t, aware |-> ts.aware])
         IN  IF Validate(event) THEN event ELSE None

TrackedPRActions == {Str(<<"opened">>), Str(<<"reopened">>), Str(<<"synchronize">>)}

\* PRActionType without the test of the merged flag
PRActionTypeIgnoresMerged(payload) ==
    LET github_action == IF Field(payload, "action").k = "absent" THEN Str(<<>>) ELSE Field(payload, "action")
    IN  IF github_action = Str(<<"closed">>) THEN "MERGE"
        ELSE IF github_action \in TrackedPRActions THEN "PULL_REQUEST"
        ELSE ""

\* the action type of a pull_request payload, "" when the payload is skipped
PRActionType(payload) ==
    LET github_action == IF Field(payload, "action").k = "absent" THEN Str(<<>>) ELSE Field(payload, "action")
        is_merged == Truthy(Get(Kind(payload, "pull_request"), Field(payload, "merged"), Bool(FALSE)))
        is_closed == github_action = Str(<<"closed">>)
    IN  IF is_closed /\ is_merged THEN "MERGE"
        ELSE IF github_action \in TrackedPRActions THEN "PULL_REQUEST"
        ELSE ""

\* pr_data.get("number", pr_data.get("id", ""))
PRNumber(payload) ==
    Get(Kind(payload, "pull_request"), Field(payload, "number"),
        Get(Kind(payload, "pull_request"), Field(payload, "pr_id"), Str(<<>>)))

\* the request_id without the MERGE- prefix for merges
PRRequestIdNoMergePrefix(payload) == Str(<<"PR-">> \o Fmt(PRNumber(payload)))

PRRequestId(payload) ==
    IF PRActionType(payload) = "MERGE"
    THEN Str(<<"MERGE-">> \o Fmt(PRNumber(payload)))
    ELSE Str(<<"PR-">> \o Fmt(PRNumber(payload)))

PRTimestampStr(payload) ==
    IF PRActionType(payload) = "MERGE"
    THEN GetTs(Kind(payload, "pull_request"), Stamp(payload, "merged_at"), TsEmpty)
    ELSE GetTs(Kind(payload, "pull_request"), Stamp(payload, "created_at"),
               GetTs(Kind(payload, "pull_request"), Stamp(payload, "updated_at"), TsEmpty))

\* `not pr_data`
PRDataMissing(payload) == Kind(payload, "pull_request") \in {"absent", "null", "empty"}

\* an exception inside the try block of parse_pull_request_event
PRRaises(payload, clock) ==
    \/ payload.shape # "obj"
    \/ /\ ~PRDataMissing(payload)
       /\ \/ GetRaises(Kind(payload, "pull_request"))
          \/ /\ PRActionType(payload) # ""
             /\ \/ GetRaises(Kind(payload, "user"))
                \/ GetRaises(Kind(payload, "head"))
                \/ GetRaises(Kind(payload, "base"))
                \/ ParseTimestamp(PRTimestampStr(payload), clock).raised

ParsePullRequestEvent(payload, clock) ==
    IF PRRaises(payload, clock) THEN None
    ELSE IF PRDataMissing(payload) THEN None
    ELSE IF PRActionType(payload) = "" THEN None
    ELSE LET ts == ParseTimestamp(PRTimestampStr(payload), clock)
             event == Event(PRRequestId(payload),
                            Get(Kind(payload, "user"), Field(payload, "login"), Str(<<"unknown">>)),
                            PRActionType(payload),
                            Get(Kind(payload, "head"), Field(payload, "head_ref"), Str(<<"unknown">>)),
                            Get(Kind(payload, "base"), Field(payload, "base_ref"), Str(<<"unknown">>)),
                            [t |-> ts.t, aware |-> ts.aware])
         IN  IF Validate(event) THEN event ELSE None

----------------------------------------------------------------------------
(* utils/database.py: the shared connection.  client, db and collection   *)
(* say whether _client, _db and _collection are set (not None); pinged    *)
(* says whether the ping of the current client succeeded; up is whether   *)
(* the store can be reached.  last describes the last call: its function, *)
(* the function called before it, whether the store could be reached,     *)
(* whether it raised ConnectionFailure and whether it made a MongoClient. *)

NoCall == [op |-> "", prev |-> "", up |-> FALSE, raised |-> FALSE, established |-> FALSE]

NoConnection ==
    [client |-> FALSE, db |-> FALSE, collection |-> FALSE, pinged |-> FALSE,
     up |-> TRUE, calls |-> 0, last |-> NoCall]

\* get_database(): MongoClient(...) connects lazily and does not raise; _db
\* is assigned before the ping
GetDatabase(c) ==
    IF ~c.db
    THEN [conn |-> [c EXCEPT !.client = TRUE, !.db = TRUE, !.pinged = c.up],
          raised |-> ~c.up, established |-> TRUE]
    ELSE [conn |-> c, raised |-> FALSE, established |-> FALSE]

\* get_collection()
GetCollection(c) ==
    IF ~c.collection
    THEN LET r == GetDatabase(c)
         IN  IF r.raised THEN r
             ELSE [r EXCEPT !.conn = [r.conn EXCEPT !.collection = TRUE]]
    ELSE [conn |-> c, raised |-> FALSE, established |-> FALSE]

\* close_connection()
CloseConnection(c) ==
    IF c.client
    THEN [c EXCEPT !.client = FALSE, !.db = FALSE, !.collection = FALSE,
                   !.pinged = FALSE]
    ELSE c

Called(c, op, r) ==
    [r.conn EXCEPT !.calls = c.calls + 1,
                   !.last = [op |-> op, prev |-> c.last.op, up |-> c.up,
                             raised |-> r.raised, established |-> r.established]]

CallGetDatabase ==
    /\ conn.calls < MaxCalls
    /\ conn' = Called(conn, "get_database", GetDatabase(conn))
    /\ UNCHANGED <<store, now, reqs, getResp, nIn, nOut>>

CallGetCollection ==
    /\ conn.calls < MaxCalls
    /\ conn' = Called(conn, "get_collection", GetCollection(conn))
    /\ UNCHANGED <<store, now, reqs, getResp, nIn, nOut>>

CallCloseConnection ==
    /\ conn.calls < MaxCalls
    /\ conn' = Called(conn, "close_connection",
                      [conn |-> CloseConnection(conn), raised |-> FALSE,
                       established |-> FALSE])
    /\ UNCHANGED <<store, now, reqs, getResp, nIn, nOut>>

\* the store becomes reachable or unreachable
StoreUpDown ==
    /\ conn' = [conn EXCEPT !.up = ~conn.up]
    /\ UNCHANGED <<store, now, reqs, getResp, nIn, nOut>>

----------------------------------------------------------------------------
(* utils/database.py and services/event_service.py: the event store        *)

HasRequestId(coll, rid) == \E i \in DOMAIN coll : coll[i].request_id = rid

\* insert_one on a collection without the unique index
InsertOneNoIndex(coll, doc) == [dup |-> FALSE, coll |-> Append(coll, doc)]

\* a write that replaces the document of the same request_id (an upsert)
InsertOneUpsert(coll, doc) ==
    IF \E i \in DOMAIN coll : coll[i].request_id = doc.request_id
    THEN [dup |-> TRUE,
          coll |-> [i \in DOMAIN coll |->
                      IF coll[i].request_id = doc.request_id THEN doc ELSE coll[i]]]
    ELSE [dup |-> FALSE, coll |-> Append(coll, doc)]

\* collection.insert_one(doc) under request_id_unique_idx (unique=True):
\* dup is DuplicateKeyError
InsertOne(coll, doc) ==
    IF HasRequestId(coll, doc.request_id)
    THEN [dup |-> TRUE, coll |-> coll]
    ELSE [dup |-> FALSE, coll |-> Append(coll, doc)]

\* save_event reporting every insert that did not fault as saved
SaveEventAlwaysSaved(coll, event, fault) ==
    IF ~Validate(event) \/ fault THEN [saved |-> FALSE, coll |-> coll]
    ELSE [saved |-> TRUE,
          coll |-> IF \E i \in DOMAIN coll : coll[i].request_id = event.request_id
                   THEN coll ELSE Append(coll, ToDict(event))]

\* save_event: fault is get_collection() or insert_one() raising anything
\* but DuplicateKeyError (the store cannot be reached, a write error)
SaveEvent(coll, event, fault) ==
    IF ~Validate(event) THEN [saved |-> FALSE, coll |-> coll]      \* except ValueError
    ELSE IF fault THEN [saved |-> FALSE, coll |-> coll]            \* except Exception
    ELSE LET r == InsertOne(coll, ToDict(event))
         IN  [saved |-> ~r.dup, coll |-> r.coll]                   \* except DuplicateKeyError

\* a cursor without .sort: the documents in insertion order
InsertionOrder(coll) == coll

\* the documents in the order .sort("timestamp", -1) gives: newest first,
\* documents of one timestamp in insertion order
RECURSIVE SortDesc(_)
SortDesc(coll) ==
    IF coll = <<>> THEN <<>>
    ELSE LET best == CHOOSE i \in DOMAIN coll :
                        /\ \A j \in DOMAIN coll : coll[j].timestamp.t <= coll[i].timestamp.t
                        /\ \A j \in 1..(i - 1) : coll[j].timestamp.t < coll[i].timestamp.t
             rest == [j \in 1..(Len(coll) - 1) |->
                        IF j < best THEN coll[j] ELSE coll[j + 1]]
         IN  <<coll[best]>> \o SortDesc(rest)

\* cursor.limit(n)
Limit(docs, n) == SubSeq(docs, 1, IF Len(docs) < n THEN Len(docs) ELSE n)

ApiEvents(docs) == [i \in DOMAIN docs |-> ToApiResponse(docs[i])]

\* get_recent_events with the bound itself inside the window ($gte)
GetRecentEventsInclusive(coll, since, limit, clock) ==
    LET bound == IF since.some THEN since.t ELSE clock - EVENT_TIME_WINDOW
        found == SelectSeq(coll, LAMBDA doc : doc.timestamp.t >= bound)
    IN  ApiEvents(Limit(SortDesc(found), limit))

\* get_recent_events(since, limit): since.some is `if since`
GetRecentEvents(coll, since, limit, clock) ==
    LET bound == IF since.some THEN since.t ELSE clock - EVENT_TIME_WINDOW
        found == SelectSeq(coll, LAMBDA doc : doc.timestamp.t > bound)
    IN  ApiEvents(Limit(SortDesc(found), limit))

\* get_all_events(limit)
GetAllEvents(coll, limit) == ApiEvents(Limit(SortDesc(coll), limit))

\* get_events_count()
GetEventsCount(coll) == Len(coll)

----------------------------------------------------------------------------
(* routes/webhook.py: POST /webhook                                        *)

Requests == 1..NumReq

NoResponse == [http |-> 0, status |-> "", message |-> "", request_id |-> Absent]

Response(http, status, message, request_id) ==
    [http |-> http, status |-> status, message |-> message, request_id |-> request_id]

\* request.get_json() raising (no body, or a body that is not JSON): the
\* handler's `except Exception` takes it
GetJsonRaises(payload) == payload.shape = "missing"

\* `if not payload`: None, {}, [] and the other falsy bodies
PayloadFalsy(payload) == payload.shape \in {"null", "empty"}

\* Dispatch without the test for unsupported event types: whatever is not
\* a pull_request is parsed as a push
DispatchParsesAll(event_type, payload, clock) ==
    IF GetJsonRaises(payload)
    THEN [final |-> TRUE, event |-> None,
          resp |-> Response(500, "error", "Internal server error", Absent)]
    ELSE IF PayloadFalsy(payload)
    THEN [final |-> TRUE, event |-> None,
          resp |-> Response(400, "error", "No JSON payload received", Absent)]
    ELSE IF event_type = "ping"
    THEN [final |-> TRUE, event |-> None,
          resp |-> Response(200, "success", "Pong! Webhook configured successfully.", Absent)]
    ELSE LET event == IF event_type = "pull_request"
                      THEN ParsePullRequestEvent(payload, clock)
                      ELSE ParsePushEvent(payload, clock)
         IN  IF ~event.ok
             THEN [final |-> TRUE, event |-> None,
                   resp |-> Response(400, "error", "Failed to parse event payload", Absent)]
             ELSE [final |-> FALSE, event |-> event, resp |-> NoResponse]

\* handle_webhook up to the call of save_event: the event to save
\* (final = FALSE), or the response when the handler returns before that
Dispatch(event_type, payload, clock) ==
    IF GetJsonRaises(payload)
    THEN [final |-> TRUE, event |-> None,
          resp |-> Response(500, "error", "Internal server error", Absent)]
    ELSE IF PayloadFalsy(payload)
    THEN [final |-> TRUE, event |-> None,
          resp |-> Response(400, "error", "No JSON payload received", Absent)]
    ELSE IF event_type = "ping"
    THEN [final |-> TRUE, event |-> None,
          resp |-> Response(200, "success", "Pong! Webhook configured successfully.", Absent)]
    ELSE IF event_type \notin {"push", "pull_request"}
    THEN [final |-> TRUE, event |-> None,
          resp |-> Response(200, "ignored", "Event type is not supported", Absent)]
    ELSE LET event == IF event_type = "push"
                      THEN ParsePushEvent(payload, clock)
                      ELSE ParsePullRequestEvent(payload, clock)
         IN  IF Propagated(event)                       \* the handler's except
             THEN [final |-> TRUE, event |-> None,
                   resp |-> Response(500, "error", "Internal server error", Absent)]
             ELSE IF ~event.ok
             THEN [final |-> TRUE, event |-> None,
                   resp |-> Response(400, "error", "Failed to parse event payload", Absent)]
             ELSE [final |-> FALSE, event |-> event, resp |-> NoResponse]

\* handle_webhook after save_event returned
SavedResponse(event, saved) ==
    IF saved
    THEN Response(200, "success", "event saved successfully", event.request_id)
    ELSE Response(200, "duplicate", "Event already exists", event.request_id)

\* no request yet
NoPayload == [shape |-> "none"]

IdleRequest ==
    [pc |-> "idle", event_type |-> "", payload |-> NoPayload, event |-> None,
     resp |-> NoResponse, fault |-> FALSE, inserted |-> FALSE, held |-> FALSE,
     pred |-> {}, startCount |-> 0, endCount |-> 0]

DoneRequests == {r \in Requests : reqs[r].pc = "done"}

(* The deliveries of the system specification                              *)

PushMain ==
    Sparse([shape |-> "obj", ref |-> Str(<<"refs/heads/", "main">>),
            head_commit |-> "obj", id |-> Str(<<"abc123">>),
            timestamp |-> TsIso(10, "Z", 0), pusher |-> "obj",
            name |-> Str(<<"alice">>)])

\* the same commit reported with another pusher, branch and no timestamp
PushMainOther ==
    Sparse([shape |-> "obj", ref |-> Str(<<"refs/heads/", "dev">>),
            head_commit |-> "obj", id |-> Str(<<"abc123">>),
            pusher |-> "obj", name |-> Str(<<"bob">>)])

PushNoCommit ==
    Sparse([shape |-> "obj", ref |-> Str(<<"refs/heads/", "main">>),
            pusher |-> "obj", name |-> Str(<<"alice">>)])

PROpened ==
    Sparse([shape |-> "obj", action |-> Str(<<"opened">>),
            pull_request |-> "obj", number |-> Num("7"),
            merged |-> Bool(FALSE), user |-> "obj",
            login |-> Str(<<"carol">>), head |-> "obj",
            head_ref |-> Str(<<"feature">>), base |-> "obj",
            base_ref |-> Str(<<"main">>),
            created_at |-> TsIso(25, "offset", 5)])

PRMerged ==
    [action |-> Str(<<"closed">>), merged |-> Bool(TRUE),
     merged_at |-> TsIso(30, "Z", 0)] @@ PROpened

PREdited == [action |-> Str(<<"edited">>)] @@ PROpened

Deliveries ==
    {[event_type |-> "push", payload |-> p] :
        p \in {PushMain, PushMainOther, PushNoCommit,
               [shape |-> "null"],
               [shape |-> "missing"]}}
    \cup {[event_type |-> "pull_request", payload |-> p] :
        p \in {PROpened, PRMerged, PREdited, [shape |-> "empty"]}}
    \cup {[event_type |-> "ping", payload |-> p] :
        p \in {EmptyObj, [shape |-> "empty"]}}
    \cup {[event_type |-> "issues", payload |-> EmptyObj],
          [event_type |-> "", payload |-> PushMain]}

\* the handler from the arrival of the request, one of deliveries, to the
\* call of save_event
ReceiveOf(r, deliveries) ==
    /\ reqs[r].pc = "idle"
    /\ \E d \in deliveries :
        LET out == Dispatch(d.event_type, d.payload, now)
        IN  reqs' = [reqs EXCEPT ![r] =
                [pc |-> IF out.final THEN "done" ELSE "parsed",
                 event_type |-> d.event_type, payload |-> d.payload,
                 event |-> out.event, resp |-> out.resp,
                 fault |-> FALSE, inserted |-> FALSE,
                 held |-> out.event.ok /\ HasRequestId(store, out.event.request_id),
                 pred |-> DoneRequests,
                 startCount |-> GetEventsCount(store),
                 endCount |-> GetEventsCount(store)]]
    /\ UNCHANGED <<store, now, getResp, nIn, nOut, conn>>

Receive(r) == ReceiveOf(r, Deliveries)

\* save_event and the response built from what it returned
Save(r) ==
    /\ reqs[r].pc = "parsed"
    /\ \E fault \in BOOLEAN :
        LET out == SaveEvent(store, reqs[r].event, fault)
        IN  /\ store' = out.coll
            /\ reqs' = [reqs EXCEPT ![r].pc = "done",
                                    ![r].resp = SavedResponse(reqs[r].event, out.saved),
                                    ![r].fault = fault,
                                    ![r].inserted = out.saved,
                                    ![r].endCount = GetEventsCount(out.coll)]
    /\ UNCHANGED <<now, getResp, nIn, nOut, conn>>

----------------------------------------------------------------------------
(* routes/events.py: GET /events                                           *)

NoGetResponse ==
    [http |-> 0, status |-> "", events |-> <<>>, count |-> 0,
     last_timestamp |-> [some |-> FALSE, t |-> 0, suffix |-> ""],
     total_in_db |-> 0]

\* int(request.args.get("limit", 50)) and the clamp; raised is ValueError
LimitAbsent == [k |-> "absent", n |-> 0]
LimitInt(n) == [k |-> "int", n |-> n]
LimitBad == [k |-> "bad", n |-> 0]

ClampLimit(limit) ==
    LET n == IF limit.k = "absent" THEN DEFAULT_LIMIT ELSE limit.n
    IN  IF n < MIN_LIMIT THEN MIN_LIMIT ELSE IF n > MAX_LIMIT THEN MAX_LIMIT ELSE n

\* the parse of ?since=: fromisoformat, then replace(tzinfo=None)
ParseSince(since_param) ==
    IF ~TsTruthy(since_param) THEN [some |-> FALSE, bad |-> FALSE, t |-> 0]
    ELSE IF since_param.form # "iso" THEN [some |-> FALSE, bad |-> TRUE, t |-> 0]
    ELSE [some |-> TRUE, bad |-> FALSE, t |-> since_param.t]

ErrorGetResponse(http) == [NoGetResponse EXCEPT !.http = http, !.status = "error"]

\* get_events: fault is the store raising
GetEventsResponse(coll, clock, since_param, fetch_all, limit, fault) ==
    IF limit.k = "bad" THEN ErrorGetResponse(500)
    ELSE IF ParseSince(since_param).bad THEN ErrorGetResponse(400)
    ELSE IF fault THEN ErrorGetResponse(500)
    ELSE LET events == IF fetch_all
                       THEN GetAllEvents(coll, ClampLimit(limit))
                       ELSE GetRecentEvents(coll, ParseSince(since_param),
                                            ClampLimit(limit), clock)
         IN  [http |-> 200, status |-> "success", events |-> events,
              count |-> Len(events),
              last_timestamp |->
                  IF events # <<>>
                  THEN [some |-> TRUE, t |-> events[1].timestamp.t,
                        suffix |-> events[1].timestamp.suffix]
                  ELSE [some |-> FALSE, t |-> 0, suffix |-> ""],
              total_in_db |-> GetEventsCount(coll)]

\* the queries of the system specification
Queries ==
    {[since |-> TsAbsent, fetch_all |-> TRUE, limit |-> LimitAbsent, fault |-> FALSE],
     [since |-> TsAbsent, fetch_all |-> FALSE, limit |-> LimitAbsent, fault |-> FALSE],
     [since |-> TsIso(10, "Z", 0), fetch_all |-> FALSE, limit |-> LimitInt(1), fault |-> FALSE]}

GetEvents ==
    /\ \E q \in Queries :
        getResp' = GetEventsResponse(store, now, q.since, q.fetch_all, q.limit, q.fault)
    /\ UNCHANGED <<store, now, reqs, nIn, nOut, conn>>

----------------------------------------------------------------------------
(* The system: webhook deliveries, reads and the clock                     *)

Tick ==
    /\ now + TickStep <= MaxTime
    /\ now' = now + TickStep
    /\ UNCHANGED <<store, reqs, getResp, nIn, nOut, conn>>

NoInput == [kind |-> "", payload |-> NoPayload]
NoOutput == [done |-> FALSE, event |-> None, resp |-> NoResponse]

Init ==
    /\ store = <<>>
    /\ now = StartTime
    /\ reqs = [r \in Requests |-> IdleRequest]
    /\ getResp = NoGetResponse
    /\ nIn = NoInput
    /\ nOut = NoOutput
    /\ conn = NoConnection

Next ==
    \/ \E r \in Requests : Receive(r)
    \/ \E r \in Requests : Save(r)
    \/ GetEvents
    \/ Tick

Spec == Init /\ [][Next]_vars

----------------------------------------------------------------------------
(* Normalization alone: the parsers applied to every payload of a bounded  *)
(* family of raw payloads, well-formed and not, with the answer the        *)
(* handler gives before it saves (none when it goes on to save_event)      *)

NormRefs ==
    {Absent, Null, Num("5"),
     Str(<<"refs/heads/", "main">>), Str(<<"main">>), Str(<<"refs/tags/", "v1">>),
     Str(<<"refs/heads/">>), Str(<<"refs/heads/", "x/", "refs/heads/", "y">>)}
NormIds == {Absent, Null, Num("5"), Str(<<>>), Str(<<"abc123">>)}
NormAfters == {Absent, Null, Num("5"), Str(<<>>), Str(<<"def456">>)}
NormNames == {Absent, Null, Num("5"), Str(<<>>), Str(<<" ">>), Str(<<"alice">>)}
NormStamps ==
    {TsAbsent, TsNull, TsNum, TsEmpty, TsGarbage,
     TsIso(10, "Z", 0), TsIso(25, "offset", 5), TsIso(10, "naive", 0)}

NormPushPayloads ==
    {[shape |-> "list"]}
    \cup {Sparse([shape |-> "obj", ref |-> r, head_commit |-> hc, after |-> a,
                  pusher |-> "obj", name |-> n]) :
            r \in NormRefs, hc \in {"absent", "null", "str"}, a \in NormAfters,
            n \in NormNames}
    \cup {Sparse([shape |-> "obj", ref |-> r, head_commit |-> "obj", id |-> i,
                  timestamp |-> ts, after |-> a, pusher |-> "obj", name |-> n]) :
            r \in NormRefs, i \in NormIds, ts \in NormStamps, a \in NormAfters,
            n \in NormNames}
    \cup {Sparse([shape |-> "obj", ref |-> Str(<<"refs/heads/", "main">>),
                  head_commit |-> hc, after |-> a, pusher |-> pk]) :
            hc \in {"absent", "null"}, a \in NormAfters,
            pk \in {"absent", "null", "str"}}
    \cup {Sparse([shape |-> "obj", ref |-> Str(<<"refs/heads/", "main">>),
                  head_commit |-> "obj", id |-> i, after |-> a, pusher |-> pk]) :
            i \in NormIds, a \in NormAfters, pk \in {"absent", "null", "str"}}

NormActions ==
    {Absent, Str(<<"opened">>), Str(<<"reopened">>), Str(<<"synchronize">>),
     Str(<<"closed">>), Str(<<"edited">>), Str(<<"labeled">>)}
NormMerged == {Absent, Null, Bool(TRUE), Bool(FALSE), Num("1")}
NormNumbers == {Absent, Null, Num("7")}
NormPrIds == {Absent, Num("99")}
NormLogins == {Absent, Null, Str(<<>>), Str(<<"carol">>)}
NormHeadRefs == {Absent, Str(<<>>), Str(<<"feature">>)}
NormMergedAt == {TsAbsent, TsNum, TsIso(30, "Z", 0)}
NormCreatedAt == {TsAbsent, TsNull, TsIso(25, "offset", 5)}
NormUpdatedAt == {TsAbsent, TsIso(10, "naive", 0)}

NormPRPayloads ==
    {[shape |-> "list"]}
    \cup {Sparse([shape |-> "obj", action |-> a, pull_request |-> pk]) :
            a \in NormActions, pk \in {"absent", "null", "empty", "str"}}
    \cup {Sparse([shape |-> "obj", action |-> a, pull_request |-> "obj",
                  merged |-> m, number |-> n, pr_id |-> i, user |-> "obj",
                  login |-> l, head |-> "obj", head_ref |-> h, base |-> "obj",
                  base_ref |-> Str(<<"main">>), merged_at |-> ma,
                  created_at |-> ca, updated_at |-> ua]) :
            a \in NormActions, m \in NormMerged, n \in NormNumbers, i \in NormPrIds,
            l \in NormLogins, h \in NormHeadRefs, ma \in NormMergedAt,
            ca \in NormCreatedAt, ua \in NormUpdatedAt}
    \cup {Sparse([shape |-> "obj", action |-> a, pull_request |-> "obj",
                  merged |-> m, number |-> Num("7"), user |-> uk, head |-> hk,
                  base |-> bk]) :
            a \in NormActions, m \in NormMerged, uk \in {"absent", "null"},
            hk \in {"absent", "null"}, bk \in {"absent", "str"}}

NormalizePush ==
    /\ nIn.kind = "push"
    /\ ~nOut.done
    /\ nOut' = [done |-> TRUE, event |-> ParsePushEvent(nIn.payload, now),
                resp |-> Dispatch("push", nIn.payload, now).resp]
    /\ UNCHANGED <<store, now, reqs, getResp, nIn, conn>>

NormalizePullRequest ==
    /\ nIn.kind = "pull_request"
    /\ ~nOut.done
    /\ nOut' = [done |-> TRUE, event |-> ParsePullRequestEvent(nIn.payload, now),
                resp |-> Dispatch("pull_request", nIn.payload, now).resp]
    /\ UNCHANGED <<store, now, reqs, getResp, nIn, conn>>

InitNorm ==
    /\ store = <<>>
    /\ now = StartTime
    /\ reqs = [r \in Requests |-> IdleRequest]
    /\ getResp = NoGetResponse
    /\ nIn \in {[kind |-> "push", payload |-> p] : p \in NormPushPayloads}
               \cup {[kind |-> "pull_request", payload |-> p] : p \in NormPRPayloads}
    /\ nOut = NoOutput
    /\ conn = NoConnection

NextNorm == NormalizePush \/ NormalizePullRequest

SpecNorm == InitNorm /\ [][NextNorm]_vars

----------------------------------------------------------------------------
(* Claims about normalization (under SpecNorm)                             *)

NormPayload == nIn.payload
NormEvent == nOut.event

\* a field that, when the payload carries it, is a non-blank string
PresentAndGood(v) == v.k = "absent" \/ (v.k = "str" /\ ~IsBlank(v.s))
\* a timestamp field that is absent, null or a string
StampGood(ts) == ts.k \in {"absent", "null", "str"}

\* the pull_request object is a non-empty object, and the author, branch
\* and timestamp fields it carries are well-formed
PRRestWellFormed(p) ==
    /\ p.shape = "obj" /\ Kind(p, "pull_request") = "obj"
    /\ Kind(p, "user") \in {"absent", "obj"} /\ (Kind(p, "user") = "obj" => PresentAndGood(Field(p, "login")))
    /\ Kind(p, "head") \in {"absent", "obj"} /\ (Kind(p, "head") = "obj" => PresentAndGood(Field(p, "head_ref")))
    /\ Kind(p, "base") \in {"absent", "obj"} /\ (Kind(p, "base") = "obj" => PresentAndGood(Field(p, "base_ref")))
    /\ StampGood(Stamp(p, "merged_at")) /\ StampGood(Stamp(p, "created_at")) /\ StampGood(Stamp(p, "updated_at"))

\* the claim's case analysis, read off the raw payload
PRIsMerge(p) == Field(p, "action") = Str(<<"closed">>) /\ Truthy(Field(p, "merged"))
PRIsTracked(p) ==
    Field(p, "action") \in {Str(<<"opened">>), Str(<<"reopened">>), Str(<<"synchronize">>)}
\* the PR's public number, its internal id when the number is absent
PRNumberOf(p) ==
    IF Field(p, "number").k # "absent" THEN Fmt(Field(p, "number"))
    ELSE IF Field(p, "pr_id").k # "absent" THEN Fmt(Field(p, "pr_id")) ELSE <<>>

PushHeadIdAbsent(p) ==
    \/ Kind(p, "head_commit") \in {"absent", "null"}
    \/ Kind(p, "head_commit") = "obj" /\ ~Truthy(Field(p, "id"))

\* the rest of a push payload is well-formed: the ref absent, null or a
\* string that names a branch, the pusher absent or an object whose name is
\* absent or a non-blank string, a timestamp that is absent, null or a
\* string, ids that are absent, null or strings
PushRestWellFormed(p) ==
    /\ p.shape = "obj"
    /\ \/ Field(p, "ref").k \in {"absent", "null"}
       \/ Field(p, "ref").k = "str" /\ ~IsBlank(Replace(Field(p, "ref").s, "refs/heads/"))
    /\ Kind(p, "pusher") \in {"absent", "obj"} /\ (Kind(p, "pusher") = "obj" => PresentAndGood(Field(p, "name")))
    /\ Kind(p, "head_commit") \in {"absent", "null", "obj"}
    /\ Field(p, "id").k \in {"absent", "null", "str"} /\ (Field(p, "id").k = "str" => ~IsBlank(Field(p, "id").s))
    /\ Field(p, "after").k \in {"absent", "null", "str"} /\ (Field(p, "after").k = "str" => ~IsBlank(Field(p, "after").s))
    /\ StampGood(Stamp(p, "timestamp"))

\* C9 as stated: request_id is the head-commit id when present, else the
\* 'after' SHA when the head-commit id is absent (head_commit missing, null
\* or without an id), and the result is not-applicable only when both are
\* absent; every record has action PUSH and from_branch = to_branch.
C9_AsStated ==
    (nOut.done /\ nIn.kind = "push" /\ PushRestWellFormed(NormPayload)) =>
        /\ IF ~PushHeadIdAbsent(NormPayload)
           THEN NormEvent.ok /\ NormEvent.request_id = Field(NormPayload, "id")
           ELSE IF Truthy(Field(NormPayload, "after"))
           THEN NormEvent.ok /\ NormEvent.request_id = Field(NormPayload, "after")
           ELSE ~NormEvent.ok
        /\ NormEvent.ok =>
            NormEvent.action = "PUSH" /\ NormEvent.from_branch = NormEvent.to_branch

\* C10 as stated: every record produced by normalization carries a UTC-naive
\* timestamp, on every path of the timestamp parse.
C10_AsStated ==
    (nOut.done /\ NormEvent.ok) => ~NormEvent.timestamp.aware

----------------------------------------------------------------------------
(* Claims about the store and POST /webhook (under Spec)                   *)

\* the number of stored records of a request_id
CountOf(rid) == Cardinality({i \in DOMAIN store : store[i].request_id = rid})

\* the request reached save_event with a record
Normalized(r) == reqs[r].pc \in {"parsed", "done"} /\ reqs[r].event.ok

SameRequestId(r1, r2) ==
    Normalized(r1) /\ Normalized(r2)
    /\ reqs[r1].event.request_id = reqs[r2].event.request_id

Status(r) == reqs[r].resp.status

\* C1: no two records of the event store have the same request_id.
C1_RequestIdUnique ==
    \A i, j \in DOMAIN store :
        store[i].request_id = store[j].request_id => i = j

\* C1 witness: two deliveries of one request_id were made; the first was
\* inserted, the second, its insert answered by the store, was turned away
C1_Witness ==
    \E r1, r2 \in Requests :
        /\ r1 # r2 /\ SameRequestId(r1, r2)
        /\ reqs[r1].pc = "done" /\ reqs[r2].pc = "done"
        /\ reqs[r1].inserted
        /\ ~reqs[r2].fault /\ ~reqs[r2].inserted
        /\ CountOf(reqs[r1].event.request_id) = 1

\* r1 and r2 ran concurrently: neither had finished when the other arrived
Concurrent(r1, r2) == r1 \notin reqs[r2].pred /\ r2 \notin reqs[r1].pred

\* C2: of two intake requests that normalize to the same request_id, never
\* both get 'success' and the store never holds two records of it; when they
\* run concurrently against a store that does not hold the request_id, and
\* both inserts are answered by the store (Inserted or DuplicateSkipped),
\* exactly one gets 'success', the other 'duplicate', and the store ends with
\* exactly one record of the request_id.
C2_RaceOneInserted ==
    \A r1, r2 \in Requests :
        (r1 # r2 /\ SameRequestId(r1, r2)) =>
            /\ ~(Status(r1) = "success" /\ Status(r2) = "success")
            /\ CountOf(reqs[r1].event.request_id) <= 1
            /\ ( /\ reqs[r1].pc = "done" /\ reqs[r2].pc = "done"
                 /\ Concurrent(r1, r2)
                 /\ ~reqs[r1].held /\ ~reqs[r2].held
                 /\ ~reqs[r1].fault /\ ~reqs[r2].fault
                 /\ \A r3 \in Requests \ {r1, r2} :
                        ~(SameRequestId(r1, r3) /\ reqs[r3].inserted) )
               => /\ {Status(r1), Status(r2)} = {"success", "duplicate"}
                  /\ reqs[r1].resp.http = 200 /\ reqs[r2].resp.http = 200
                  /\ CountOf(reqs[r1].event.request_id) = 1

\* C2 witness: two concurrent deliveries of one commit, by different pushers:
\* one inserted, the other skipped
C2_Witness ==
    \E r1, r2 \in Requests :
        /\ r1 # r2 /\ SameRequestId(r1, r2) /\ Concurrent(r1, r2)
        /\ reqs[r1].pc = "done" /\ reqs[r2].pc = "done"
        /\ ~reqs[r1].held /\ ~reqs[r2].held
        /\ ~reqs[r1].fault /\ ~reqs[r2].fault
        /\ reqs[r1].event.author # reqs[r2].event.author
        /\ Status(r1) = "success" /\ Status(r2) = "duplicate"
        /\ CountOf(reqs[r1].event.request_id) = 1

\* r2 was delivered after r1 had been answered, and no other delivery
\* overlapped the two
InSequence(r1, r2) ==
    /\ reqs[r1].pc = "done" /\ reqs[r2].pc = "done"
    /\ r1 \in reqs[r2].pred
    /\ \A r3 \in Requests \ {r1, r2} :
        reqs[r3].pc = "idle" \/ r3 \in reqs[r1].pred \/ r2 \in reqs[r3].pred

\* the response of GET /events?all=true on the present store
AllEventsNow == GetEventsResponse(store, now, TsAbsent, TRUE, LimitAbsent, FALSE)

C4_RecordsImmutable ==
    [][\A i \in DOMAIN store : \E j \in DOMAIN store' : store'[j] = store[i]]_vars

\* C4 witness: a delivery with a stored request_id but another author and
\* branch was made and answered, and a read was served
C4_Witness ==
    /\ getResp.http = 200 /\ getResp.count >= 1
    /\ \E r \in Requests, i \in DOMAIN store :
        /\ reqs[r].pc = "done" /\ reqs[r].event.ok
        /\ ~reqs[r].fault /\ ~reqs[r].inserted
        /\ store[i].request_id = reqs[r].event.request_id
        /\ store[i].author # reqs[r].event.author
        /\ store[i].to_branch # reqs[r].event.to_branch
        /\ store[i].timestamp.t # reqs[r].event.timestamp.t

\* C5 as stated: a storage fault during the insert is answered 500 'error'
\* with the generic message, and 'duplicate' is answered only when a record
\* of that request_id is in the store.
C5_AsStated ==
    \A r \in Requests :
        reqs[r].pc = "done" =>
            /\ reqs[r].fault =>
                /\ reqs[r].resp.http = 500 /\ Status(r) = "error"
                /\ reqs[r].resp.message = "Internal server error"
            /\ Status(r) = "duplicate" => CountOf(reqs[r].event.request_id) >= 1

\* the payload is a non-empty JSON value
PayloadNonEmpty(payload) == payload.shape \in {"obj", "list"}

PayloadEmptyOrAbsent(payload) == payload.shape \in {"missing", "null", "empty"}

\* C7 as stated: an empty or absent payload, whatever the event-kind tag,
\* and a push or pull_request payload that normalizes to not-applicable are
\* answered 400 'error' with no persistence attempt.
C7_AsStated ==
    \A r \in Requests :
        ( /\ reqs[r].pc = "done"
          /\ \/ PayloadEmptyOrAbsent(reqs[r].payload)
             \/ /\ reqs[r].event_type \in {"push", "pull_request"}
                /\ ~reqs[r].event.ok )
        => /\ reqs[r].resp.http = 400 /\ Status(r) = "error"
           /\ ~reqs[r].inserted /\ reqs[r].endCount = reqs[r].startCount

----------------------------------------------------------------------------
(* GET /events alone: one request with every combination of a bounded      *)
(* family of query strings, against every store of up to MaxDocs records   *)

\* record times around the default bound StartTime - EVENT_TIME_WINDOW
QueryTimes ==
    {StartTime - 20, StartTime - EVENT_TIME_WINDOW, StartTime - 10, StartTime - 8}

QueryDoc(i, t) ==
    ToDict(Event(Str(<<"PR-", ToString(i)>>), Str(<<"carol">>), "PULL_REQUEST",
                 Str(<<"feature">>), Str(<<"main">>), [t |-> t, aware |-> FALSE]))

\* the stores: distinct request_ids, any times in any insertion order
QueryStores ==
    UNION {{[i \in 1..n |-> QueryDoc(i, f[i])] : f \in [1..n -> QueryTimes]} :
           n \in 0..MaxDocs}

\* ?since= values; the third and the fourth denote the instant of the second
\* and of the fifth
QuerySinces ==
    {TsAbsent, TsEmpty, TsGarbage,
     TsIso(StartTime - EVENT_TIME_WINDOW, "Z", 0),
     TsIso(StartTime - 10, "offset", 5),
     TsIso(StartTime - 10, "naive", 0),
     TsIso(StartTime - EVENT_TIME_WINDOW, "offset", 0 - 5)}

\* ?limit= values: omitted, integers below, inside and above the range, and
\* a string int() rejects
QueryLimits ==
    {LimitAbsent, LimitInt(0 - 1), LimitInt(0), LimitInt(1), LimitInt(2),
     LimitInt(100), LimitInt(500), LimitBad}

QueryArgs ==
    [since : QuerySinces, fetch_all : BOOLEAN, limit : QueryLimits,
     fault : BOOLEAN]

QueryEvents ==
    /\ nIn.kind = "get"
    /\ getResp = NoGetResponse
    /\ getResp' = GetEventsResponse(store, now, nIn.payload.since,
                                    nIn.payload.fetch_all, nIn.payload.limit,
                                    nIn.payload.fault)
    /\ UNCHANGED <<store, now, reqs, nIn, nOut, conn>>

InitQuery ==
    /\ store \in QueryStores
    /\ now = StartTime
    /\ reqs = [r \in Requests |-> IdleRequest]
    /\ getResp = NoGetResponse
    /\ nIn \in {[kind |-> "get", payload |-> q] : q \in QueryArgs}
    /\ nOut = NoOutput
    /\ conn = NoConnection

NextQuery == QueryEvents

SpecQuery == InitQuery /\ [][NextQuery]_vars

----------------------------------------------------------------------------
(* Claims about GET /events (under SpecQuery)                              *)

QueryIn == nIn.payload
Answered == nIn.kind = "get" /\ getResp # NoGetResponse
Succeeded == Answered /\ getResp.http = 200

\* the datetime the handler hands to get_recent_events, and the bound of
\* the query it makes
SinceGiven == ParseSince(QueryIn.since)
RecentBound == IF SinceGiven.some THEN SinceGiven.t ELSE now - EVENT_TIME_WINDOW
Matching == {i \in DOMAIN store : store[i].timestamp.t > RecentBound}
Returned(i) ==
    \E k \in DOMAIN getResp.events :
        getResp.events[k].request_id = store[i].request_id
Smaller(a, b) == IF a < b THEN a ELSE b

NewestFirst ==
    \A k \in 1..(Len(getResp.events) - 1) :
        getResp.events[k].timestamp.t >= getResp.events[k + 1].timestamp.t

\* C11: queryRecent(since, limit) returns, newest first, the up-to-limit
\* newest records whose timestamp is strictly greater than the bound: since
\* when given, now - 15 s when omitted.  A record at the bound is excluded;
\* with since omitted a record 10 s old is included (when the limit leaves
\* room) and one 20 s old is excluded.
C11_QueryRecent ==
    (Succeeded /\ ~QueryIn.fetch_all) =>
        /\ NewestFirst
        /\ \A k \in DOMAIN getResp.events :
              \E i \in Matching : getResp.events[k] = ToApiResponse(store[i])
        /\ \A k, l \in DOMAIN getResp.events :
              k # l => getResp.events[k].request_id # getResp.events[l].request_id
        /\ Len(getResp.events)
              = Smaller(ClampLimit(QueryIn.limit), Cardinality(Matching))
        /\ \A i \in Matching :
              ~Returned(i) =>
                 \A k \in DOMAIN getResp.events :
                     store[i].timestamp.t <= getResp.events[k].timestamp.t
        /\ \A i \in DOMAIN store :
              store[i].timestamp.t = RecentBound => ~Returned(i)
        /\ ~SinceGiven.some =>
              \A i \in DOMAIN store :
                 /\ store[i].timestamp.t = now - 20 => ~Returned(i)
                 /\ (/\ store[i].timestamp.t = now - 10
                     /\ Cardinality(Matching) <= ClampLimit(QueryIn.limit))
                        => Returned(i)

\* since omitted, records 20 s, 15 s and 10 s old: only the last is returned
C11_Witness ==
    /\ Succeeded /\ ~QueryIn.fetch_all /\ ~SinceGiven.some
    /\ QueryIn.limit = LimitAbsent
    /\ Len(store) = 3
    /\ store[1].timestamp.t = now - 10
    /\ store[2].timestamp.t = now - 20
    /\ store[3].timestamp.t = now - EVENT_TIME_WINDOW
    /\ Len(getResp.events) = 1
    /\ getResp.events[1].request_id = store[1].request_id

\* the response the handler gives to the same request with another ?limit=
WithLimit(limit) ==
    GetEventsResponse(store, now, QueryIn.since, QueryIn.fetch_all, limit,
                      QueryIn.fault)

\* the request is one the claim expects to succeed: the since filter parses
\* and the store answers
Servable == Answered /\ ~ParseSince(QueryIn.since).bad /\ ~QueryIn.fault

\* C12: for every limit value a client supplies the request is not errored
\* and the effective limit is the value clamped to [1, 100] (50 when
\* omitted): limit=0 and negative limits behave as limit=1, limit=500 as
\* limit=100, and the events returned never exceed the clamped limit, for
\* the 'all' and the 'recent' query alike.
C12_AsStated ==
    Servable =>
        /\ getResp.http = 200 /\ getResp.status = "success"
        /\ Len(getResp.events) <= MAX_LIMIT
        /\ QueryIn.limit.k = "absent" => getResp = WithLimit(LimitInt(DEFAULT_LIMIT))
        /\ QueryIn.limit.k = "int" =>
              /\ Len(getResp.events) <= ClampLimit(QueryIn.limit)
              /\ QueryIn.limit.n < MIN_LIMIT => getResp = WithLimit(LimitInt(MIN_LIMIT))
              /\ QueryIn.limit.n > MAX_LIMIT => getResp = WithLimit(LimitInt(MAX_LIMIT))

\* what holds of C12: the same for the limits that int() accepts
C12_IntegerLimitsClamped == QueryIn.limit.k # "bad" => C12_AsStated

\* limit=0 against a store of three records, all of them wanted: one event
C12_IntegerWitness ==
    /\ Servable /\ QueryIn.fetch_all /\ QueryIn.limit = LimitInt(0)
    /\ Len(store) = 3
    /\ getResp.http = 200 /\ Len(getResp.events) = 1

\* ?since= is given and is no ISO-8601 date-time
SinceUnparseable == TsTruthy(QueryIn.since) /\ QueryIn.since.form # "iso"

\* C13: GET /events with a since that cannot be parsed as an ISO-8601
\* date-time responds HTTP 400 with status 'error' and makes no store query
\* (the answer carries no events, whatever the store holds and whether it
\* can be reached); it never falls back to the current time or the default
\* window.  This holds with and without all=true.
C13_AsStated ==
    (Answered /\ SinceUnparseable) =>
        /\ getResp.http = 400
        /\ getResp.status = "error"
        /\ getResp.events = <<>>

\* what holds of C13: the same when ?limit= is omitted or an integer
C13_RejectedAfterLimit == QueryIn.limit.k # "bad" => C13_AsStated

\* since=not-a-date with all=true, an unreachable store of three records
C13_RejectedWitness ==
    /\ Answered /\ SinceUnparseable /\ QueryIn.fetch_all /\ QueryIn.fault
    /\ QueryIn.limit = LimitAbsent
    /\ Len(store) = 3
    /\ getResp.http = 400

\* ?since= is an ISO-8601 date-time; the UTC instant it denotes by the
\* timestamp rule of normalization (_parse_timestamp)
SinceParses == TsTruthy(QueryIn.since) /\ QueryIn.since.form = "iso"
SinceInstant == ParseTimestamp(QueryIn.since, now).t

\* the response to the same request with another ?since=
WithSince(since) ==
    GetEventsResponse(store, now, since, QueryIn.fetch_all, QueryIn.limit,
                      QueryIn.fault)

\* C14: 'since' is parsed by the timestamp rule of normalization: a since
\* carrying a UTC offset is converted to the UTC instant before it is
\* compared with stored timestamps, so two since values denoting the same
\* instant (T+05:00 and (T-5h)Z) select the same records, and a record is
\* selected iff its stored UTC instant is strictly later than that instant.
C14_AsStated ==
    (Succeeded /\ SinceParses /\ ~QueryIn.fetch_all) =>
        /\ getResp = WithSince(TsIso(SinceInstant, "Z", 0))
        /\ \A i \in DOMAIN store :
              /\ Returned(i) => store[i].timestamp.t > SinceInstant
              /\ (/\ store[i].timestamp.t > SinceInstant
                  /\ Len(store) <= ClampLimit(QueryIn.limit)) => Returned(i)

\* what holds of C14: the same for a since without an offset ("Z", "+00:00"
\* or none)
C14_UtcSince ==
    (QueryIn.since.k = "str" /\ QueryIn.since.form = "iso"
        /\ QueryIn.since.off = 0) => C14_AsStated

\* since=...Z at the time of the second of three records
C14_UtcWitness ==
    /\ Succeeded /\ SinceParses /\ ~QueryIn.fetch_all
    /\ QueryIn.since.tz = "Z"
    /\ QueryIn.limit = LimitAbsent
    /\ Len(store) = 3
    /\ store[1].timestamp.t > SinceInstant
    /\ store[2].timestamp.t = SinceInstant
    /\ store[3].timestamp.t < SinceInstant
    /\ Len(getResp.events) = 1

\* C15: every successful GET /events response has count equal to the
\* number of events in the list; last_timestamp is none iff the list is
\* empty and otherwise is the timestamp of the first event, the maximum
\* among the returned events; total_in_db is the store's record count.
C15_ResponseSummary ==
    Succeeded =>
        /\ getResp.count = Len(getResp.events)
        /\ getResp.last_timestamp.some <=> getResp.events # <<>>
        /\ getResp.events # <<>> =>
              /\ getResp.last_timestamp.t = getResp.events[1].timestamp.t
              /\ getResp.last_timestamp.suffix = getResp.events[1].timestamp.suffix
              /\ \A k \in DOMAIN getResp.events :
                    getResp.events[k].timestamp.t <= getResp.last_timestamp.t
        /\ getResp.total_in_db = Len(store)

\* all=true&limit=2 on three records, the newest inserted last
C15_Witness ==
    /\ Succeeded /\ QueryIn.fetch_all /\ QueryIn.limit = LimitInt(2)
    /\ Len(store) = 3
    /\ store[1].timestamp.t < store[2].timestamp.t
    /\ store[2].timestamp.t < store[3].timestamp.t
    /\ getResp.count = 2
    /\ getResp.total_in_db = 3
    /\ getResp.last_timestamp.some
    /\ getResp.last_timestamp.t = store[3].timestamp.t

----------------------------------------------------------------------------
(* Further claims about normalization (under SpecNorm)                     *)

\* C16: normalization never propagates an exception: for every raw payload
\* shape (a payload that is no object, nested fields that are null or of
\* the wrong type, ids or timestamps that are no strings, empty author or
\* branch strings) the parsers return a record that passes validation or
\* the not-applicable result, and the handler then answers 400, not 500.
C16_NeverPropagates ==
    nOut.done =>
        /\ ~Propagated(nOut.event)
        /\ nOut.event.ok => Validate(nOut.event) /\ nOut.resp = NoResponse
        /\ ~nOut.event.ok =>
              /\ nOut.event = None
              /\ nOut.resp.http = 400 /\ nOut.resp.status = "error"

\* a push whose head_commit is null (.get on None raises inside the parser)
C16_Witness ==
    /\ nOut.done /\ nIn.kind = "push"
    /\ Kind(nIn.payload, "head_commit") = "null"
    /\ PushRaises(nIn.payload, now)
    /\ nOut.event = None
    /\ nOut.resp.http = 400

\* the branch name the claim gives for a ref: the ref without a leading
\* "refs/heads/", "unknown" for every other form
HasHeadsPrefix(ref) == ref.k = "str" /\ ref.s # <<>> /\ Head(ref.s) = "refs/heads/"
BranchOfRef(ref) == IF HasHeadsPrefix(ref) THEN Str(Tail(ref.s)) ELSE Str(<<"unknown">>)

\* C17: for every push payload that yields a record, from_branch and
\* to_branch are the ref with a leading literal 'refs/heads/' stripped and
\* nothing else removed (a later occurrence of 'refs/heads/' is kept); a ref
\* of any other form (absent, empty, not starting with 'refs/heads/' as in
\* 'refs/tags/v1') yields the branch name 'unknown'.
C17_AsStated ==
    (nOut.done /\ nIn.kind = "push" /\ nOut.event.ok) =>
        /\ nOut.event.from_branch = BranchOfRef(Field(nIn.payload, "ref"))
        /\ nOut.event.to_branch = BranchOfRef(Field(nIn.payload, "ref"))

\* what holds of C17: the same for a ref that is absent, null or empty, or
\* that starts with 'refs/heads/' and holds it nowhere else
C17_PrefixedOrMissing ==
    (\/ ~Truthy(Field(nIn.payload, "ref"))
     \/ /\ HasHeadsPrefix(Field(nIn.payload, "ref"))
        /\ \A k \in 2..Len(Field(nIn.payload, "ref").s) :
              Field(nIn.payload, "ref").s[k] # "refs/heads/")
        => C17_AsStated

\* refs/heads/main gives the record's branches "main"
C17_PrefixedWitness ==
    /\ nOut.done /\ nIn.kind = "push" /\ nOut.event.ok
    /\ Field(nIn.payload, "ref") = Str(<<"refs/heads/", "main">>)
    /\ nOut.event.from_branch = Str(<<"main">>)
    /\ nOut.event.to_branch = Str(<<"main">>)

----------------------------------------------------------------------------
(* The connection alone: calls of get_database, get_collection and         *)
(* close_connection while the store comes and goes                         *)

InitDb ==
    /\ store = <<>>
    /\ now = StartTime
    /\ reqs = [r \in Requests |-> IdleRequest]
    /\ getResp = NoGetResponse
    /\ nIn = NoInput
    /\ nOut = NoOutput
    /\ conn \in {NoConnection, [NoConnection EXCEPT !.up = FALSE]}

NextDb == CallGetDatabase \/ CallGetCollection \/ CallCloseConnection \/ StoreUpDown

SpecDb == InitDb /\ [][NextDb]_vars

HandedOut == conn.last.op \in {"get_database", "get_collection"} /\ ~conn.last.raised

\* C18: get_database (and get_collection through it) hands out a store
\* handle only for a connection whose ping succeeded: in any sequence of
\* calls, a call made while the store is unreachable raises
\* ConnectionFailure, also after an earlier first-use attempt failed; after
\* close_connection the next call establishes and verifies a fresh
\* connection instead of returning a closed handle.
C18_AsStated ==
    conn.last.op \in {"get_database", "get_collection"} =>
        /\ HandedOut => conn.pinged
        /\ ~conn.last.up => conn.last.raised
        /\ conn.last.prev = "close_connection" =>
              /\ conn.last.established
              /\ HandedOut => conn.client /\ conn.pinged

\* what holds of C18: the call after close_connection makes a new client
\* and pings it, and a first call raises while the store is unreachable
C18_FreshAfterClose ==
    conn.last.op \in {"get_database", "get_collection"} =>
        /\ conn.last.prev \in {"", "close_connection"} =>
              /\ conn.last.established
              /\ conn.last.raised <=> ~conn.last.up
              /\ HandedOut => conn.client /\ conn.pinged

\* a handle, closed, and get_collection again with the store reachable
C18_FreshWitness ==
    /\ conn.last.op = "get_collection" /\ conn.last.prev = "close_connection"
    /\ conn.calls >= 3
    /\ HandedOut /\ conn.last.established /\ conn.collection /\ conn.pinged

----------------------------------------------------------------------------
(* Pull-request notifications alone: the life of two pull requests         *)
(* delivered to POST /webhook in any order and overlap                     *)

PRReopened ==
    [action |-> Str(<<"reopened">>), login |-> Str(<<"dave">>)] @@ PROpened
PRSynchronize ==
    [action |-> Str(<<"synchronize">>), head_ref |-> Str(<<"feature2">>)] @@ PROpened
PRClosedUnmerged == [action |-> Str(<<"closed">>)] @@ PROpened
PROpenedOther == [number |-> Num("8")] @@ PROpened

PRDeliveries ==
    {[event_type |-> "pull_request", payload |-> p] :
        p \in {PROpened, PRReopened, PRSynchronize, PRMerged, PRClosedUnmerged,
               PROpenedOther}}

ReceivePR(r) == ReceiveOf(r, PRDeliveries)

NextPR ==
    \/ \E r \in Requests : ReceivePR(r)
    \/ \E r \in Requests : Save(r)

SpecPR == Init /\ [][NextPR]_vars

PRKey(n) == Str(<<"PR-">> \o n)
MergeKey(n) == Str(<<"MERGE-">> \o n)
PRNumbersSeen == {PRNumberOf(d.payload) : d \in PRDeliveries}

\* r1 is an 'opened' notification that was stored and answered before r2,
\* a pull_request notification of the same number, arrived
OpenedStoredBefore(r1, r2) ==
    /\ r1 # r2
    /\ reqs[r1].pc = "done" /\ reqs[r2].pc = "done"
    /\ reqs[r1].event_type = "pull_request" /\ reqs[r2].event_type = "pull_request"
    /\ Field(reqs[r1].payload, "action") = Str(<<"opened">>)
    /\ reqs[r1].inserted
    /\ r1 \in reqs[r2].pred
    /\ PRRestWellFormed(reqs[r2].payload)
    /\ PRNumberOf(reqs[r2].payload) = PRNumberOf(reqs[r1].payload)

\* C19: for each PR number n the store holds at most one PULL_REQUEST
\* record ('PR-n') and at most one MERGE record ('MERGE-n') over any
\* sequence of pull_request notifications; once an 'opened' event for n is
\* stored, every later 'opened', 'reopened' or 'synchronize' notification
\* for n is answered 'duplicate' and adds no record, while a later 'closed'
\* with merged true for n is still stored as a separate record (when the
\* store answers its insert and holds no MERGE-n yet).
C19_OnePerPullRequest ==
    /\ \A n \in PRNumbersSeen :
          /\ CountOf(PRKey(n)) <= 1
          /\ CountOf(MergeKey(n)) <= 1
    /\ \A i \in DOMAIN store :
          \E n \in PRNumbersSeen :
              \/ store[i].request_id = PRKey(n) /\ store[i].action = "PULL_REQUEST"
              \/ store[i].request_id = MergeKey(n) /\ store[i].action = "MERGE"
    /\ \A r1, r2 \in Requests :
          OpenedStoredBefore(r1, r2) =>
              LET n == PRNumberOf(reqs[r1].payload)
              IN  /\ (PRIsTracked(reqs[r2].payload) /\ ~PRIsMerge(reqs[r2].payload)) =>
                        /\ reqs[r2].resp.http = 200 /\ Status(r2) = "duplicate"
                        /\ reqs[r2].resp.request_id = PRKey(n)
                        /\ ~reqs[r2].inserted
                        /\ CountOf(PRKey(n)) = 1
                  /\ ( /\ PRIsMerge(reqs[r2].payload)
                       /\ ~reqs[r2].fault /\ ~reqs[r2].held
                       /\ \A r3 \in Requests \ {r2} :
                             ~(SameRequestId(r2, r3) /\ reqs[r3].inserted) ) =>
                        /\ reqs[r2].resp.http = 200 /\ Status(r2) = "success"
                        /\ reqs[r2].resp.request_id = MergeKey(n)
                        /\ reqs[r2].inserted
                        /\ CountOf(PRKey(n)) = 1 /\ CountOf(MergeKey(n)) = 1

\* PR 7 opened and stored, then closed as merged: two records
C19_Witness ==
    \E r1, r2 \in Requests :
        /\ OpenedStoredBefore(r1, r2)
        /\ reqs[r1].payload = PROpened /\ reqs[r2].payload = PRMerged
        /\ Status(r1) = "success" /\ Status(r2) = "success"
        /\ Len(store) = 2
        /\ store[1].request_id = PRKey(<<"7">>) /\ store[1].action = "PULL_REQUEST"
        /\ store[2].request_id = MergeKey(<<"7">>) /\ store[2].action = "MERGE"

====
